---- MODULE Spec2Model ----
(***************************************************************************)
(* Model of examples/wholesome/renderer.rs: the Renderer that owns the     *)
(* swapchain, the scene targets and the chain of GPU futures, and its      *)
(* render() / resize() / resize_scene_view() operations.                   *)
(*                                                                         *)
(* render() is modelled step by step (pc), one step per call it makes to   *)
(* the presentation engine, the frame system or the overlay, so that the   *)
(* order of those calls is visible.  The program is single threaded:       *)
(* resize() and resize_scene_view() only run between render() calls.       *)
(* Results of calls into vulkano (Ok / error variants) are inputs.         *)
(***************************************************************************)
EXTENDS Integers, Sequences, FiniteSets, TLC

\* ---- bounds -------------------------------------------------------------
MaxFrames == 2            \* number of render() calls explored
MaxImages == 2            \* largest image count a swapchain may return

\* abstract extents: window inner sizes and scene resolutions
WindowSizes == {1, 2}
SceneSizes == {1, 2}
ImageCounts == 1..MaxImages

VARIABLES
    pc,                   \* position of the control thread
    frame,                \* number of render() calls started
    window_size,          \* surface.window().inner_size()
    swap_chain,           \* self.swap_chain
    final_images,         \* self.final_images
    scene_images,         \* self.scene_images
    image_num,            \* self.image_num
    scene_view_size,      \* self.scene_view_size
    recreate_swapchain,   \* self.recreate_swapchain
    previous_frame_end,   \* self.previous_frame_end
    after_future,         \* render()'s local after_future
    inflight,             \* GPU work submitted and not yet completed
    calls,                \* calls made by the current render() call
    prev_frame            \* summary of the render() call before it

vars == <<pc, frame, window_size, swap_chain, final_images, scene_images,
          image_num, scene_view_size, recreate_swapchain, previous_frame_end,
          after_future, inflight, calls, prev_frame>>

\* ---- futures ------------------------------------------------------------
\* A future is identified by the source line that creates it and the
\* render() call in which it was created.  None is Option::None.
None == [kind |-> "none", line |-> 0, frame |-> 0]

\* sync::now(device).boxed(): a fresh no-op future
SyncNow(line, f) == [kind |-> "now", line |-> line, frame |-> f]

\* a future that stands for submitted work
WorkFuture(line, f) == [kind |-> "work", line |-> line, frame |-> f]

\* Option::take(): the value moved out, and what is left behind
Take(opt) == [value |-> opt, left |-> None]

\* ---- swapchain and images -----------------------------------------------
\* Swapchain of generation gen with n images of extent dim
SwapchainOf(gen, n, dim) == [gen |-> gen, num_images |-> n, dimensions |-> dim]

\* images.into_iter().map(|image| ImageView::new(image).unwrap()).collect()
ImageViews(sc) ==
    [i \in 1..sc.num_images |->
        [swapchain |-> sc.gen, index |-> i - 1, dimensions |-> sc.dimensions]]

\* mutant: the scene targets take the extent of the reference images
create_scene_images_ReferenceSize(swapchain_images, size) ==
    [i \in 1..Len(swapchain_images) |->
        [dimensions |-> swapchain_images[i].dimensions]]

\* Renderer::create_scene_images: one attachment image per swapchain image,
\* each of extent scene_view_size
create_scene_images(swapchain_images, size) ==
    [i \in 1..Len(swapchain_images) |-> [dimensions |-> size]]

\* ---- the log of calls ---------------------------------------------------
Entry(op, res, img, gen, fut) ==
    [op |-> op, res |-> res, img |-> img, gen |-> gen, fut |-> fut]

Called(log, op) == \E i \in 1..Len(log) : log[i].op = op
CalledWith(log, op, res) == \E i \in 1..Len(log) : log[i].op = op /\ log[i].res = res
TheCall(log, op) == log[CHOOSE i \in 1..Len(log) : log[i].op = op]

\* a render() call that acquired, drew and presented without any error
DrewWithoutError(log) ==
    /\ CalledWith(log, "acquire", "Ok") \/ CalledWith(log, "acquire", "Suboptimal")
    /\ CalledWith(log, "scene", "Ok")
    /\ CalledWith(log, "gui.draw", "Ok")
    /\ CalledWith(log, "present", "Ok")

\* what is remembered of the render() call before the current one: whether it
\* drew without error, and the future it left in previous_frame_end
Summary(log, stored) == [ok |-> DrewWithoutError(log), stored |-> stored]
NoFrame == Summary(<<>>, None)

\* ---- Renderer::new ------------------------------------------------------
Init ==
    /\ pc = "idle"
    /\ frame = 0
    /\ window_size \in WindowSizes
    /\ \E n \in ImageCounts :
          /\ swap_chain = SwapchainOf(0, n, window_size)
          /\ final_images = ImageViews(SwapchainOf(0, n, window_size))
    /\ scene_view_size \in SceneSizes
    /\ scene_images = create_scene_images(final_images, scene_view_size)
    /\ image_num = 0
    /\ recreate_swapchain = FALSE
    /\ previous_frame_end = SyncNow(98, 0)
    /\ after_future = None
    /\ inflight = {}
    /\ calls = <<>>
    /\ prev_frame = NoFrame

\* mutant: resize() rebuilds the swapchain extent from the window
Resize_StoresExtent ==
    /\ pc = "idle"
    /\ recreate_swapchain' = TRUE
    /\ swap_chain' = [swap_chain EXCEPT !.dimensions = window_size]
    /\ UNCHANGED <<pc, frame, window_size, final_images, scene_images,
                   image_num, scene_view_size, previous_frame_end,
                   after_future, inflight, calls, prev_frame>>

\* mutant: resize() flips the flag
Resize_Toggles ==
    /\ pc = "idle"
    /\ recreate_swapchain' = ~recreate_swapchain
    /\ UNCHANGED <<pc, frame, window_size, swap_chain, final_images,
                   scene_images, image_num, scene_view_size,
                   previous_frame_end, after_future, inflight, calls,
                   prev_frame>>

\* ---- Renderer::resize ---------------------------------------------------
Resize ==
    /\ pc = "idle"
    /\ recreate_swapchain' = TRUE
    /\ UNCHANGED <<pc, frame, window_size, swap_chain, final_images,
                   scene_images, image_num, scene_view_size,
                   previous_frame_end, after_future, inflight, calls,
                   prev_frame>>

\* ---- Renderer::resize_scene_view ----------------------------------------
ResizeSceneView(new_size) ==
    /\ pc = "idle"
    /\ new_size # scene_view_size
    /\ scene_view_size' = new_size
    /\ scene_images' = create_scene_images(final_images, new_size)
    /\ UNCHANGED <<pc, frame, window_size, swap_chain, final_images, image_num,
                   recreate_swapchain, previous_frame_end, after_future,
                   inflight, calls, prev_frame>>

\* ---- the window system: the user resizes the window ----------------------
WindowResized(new_size) ==
    /\ pc = "idle"
    /\ new_size # window_size
    /\ window_size' = new_size
    /\ UNCHANGED <<pc, frame, swap_chain, final_images, scene_images, image_num,
                   scene_view_size, recreate_swapchain, previous_frame_end,
                   after_future, inflight, calls, prev_frame>>

\* ---- Renderer::render, entry: `if self.recreate_swapchain` ---------------
RenderEntryTarget(stale) == IF stale THEN "recreate_swapchain" ELSE "acquire"

Render ==
    /\ pc = "idle"
    /\ frame < MaxFrames
    /\ frame' = frame + 1
    /\ calls' = <<>>
    /\ prev_frame' = IF frame = 0 THEN NoFrame ELSE Summary(calls, previous_frame_end)
    /\ after_future' = None
    /\ pc' = RenderEntryTarget(recreate_swapchain)
    /\ UNCHANGED <<window_size, swap_chain, final_images, scene_images,
                   image_num, scene_view_size, recreate_swapchain,
                   previous_frame_end, inflight>>

\* ---- Renderer::recreate_swapchain ---------------------------------------
RecreateResults == {"Ok", "UnsupportedDimensions", "Error"}

\* mutant: recreate_swapchain() clears the flag on every return
StaleAfterRecreate_Clears(result, stale) == FALSE

\* the stale flag after recreate_swapchain() got `result`
StaleAfterRecreate(result, stale) == IF result = "Ok" THEN FALSE ELSE stale

\* where render() continues after recreate_swapchain() got `result`
AfterRecreateTarget(result) == IF result = "Error" THEN "panicked" ELSE "acquire"

\* mutant: the new image views are not stored in final_images
RecreateSwapchain_KeepsImages(result, n) ==
    /\ pc = "recreate_swapchain"
    /\ result \in RecreateResults
    /\ result # "Ok" => n = swap_chain.num_images
    /\ swap_chain' = IF result = "Ok"
                     THEN SwapchainOf(swap_chain.gen + 1, n, window_size)
                     ELSE swap_chain
    /\ recreate_swapchain' = StaleAfterRecreate(result, recreate_swapchain)
    /\ calls' = Append(calls, Entry("recreate", result, -1, swap_chain'.gen, None))
    /\ pc' = AfterRecreateTarget(result)
    /\ UNCHANGED <<frame, window_size, final_images, scene_images, image_num,
                   scene_view_size, previous_frame_end, after_future, inflight,
                   prev_frame>>

RecreateSwapchain(result, n) ==
    /\ pc = "recreate_swapchain"
    /\ result \in RecreateResults
    /\ result # "Ok" => n = swap_chain.num_images
    /\ LET new_swapchain == SwapchainOf(swap_chain.gen + 1, n, window_size)
       IN  /\ swap_chain' = IF result = "Ok" THEN new_swapchain ELSE swap_chain
           /\ final_images' = IF result = "Ok" THEN ImageViews(new_swapchain)
                              ELSE final_images
    /\ recreate_swapchain' = StaleAfterRecreate(result, recreate_swapchain)
    /\ calls' = Append(calls, Entry("recreate", result, -1, swap_chain'.gen, None))
    /\ pc' = AfterRecreateTarget(result)
    /\ UNCHANGED <<frame, window_size, scene_images, image_num, scene_view_size,
                   previous_frame_end, after_future, inflight, prev_frame>>

\* ---- render: swapchain::acquire_next_image and its match -----------------
AcquireResults == {"Ok", "OutOfDate", "Error"}

\* mutant: the OutOfDate arm does not return
AfterAcquireTarget_NoReturn(result) ==
    IF result = "Error" THEN "panicked" ELSE "render_scene"

\* where render() continues after acquire_next_image returned `result`
AfterAcquireTarget(result) ==
    CASE result = "Ok" -> "render_scene"
      [] result = "OutOfDate" -> "idle"
      [] OTHER -> "panicked"

\* mutant: `suboptimal` is ignored
StaleAfterAcquire_IgnoresSuboptimal(result, suboptimal, stale) ==
    IF result = "OutOfDate" THEN TRUE ELSE stale

\* the stale flag after acquire_next_image returned `result`, `suboptimal`
StaleAfterAcquire(result, suboptimal, stale) ==
    CASE result = "OutOfDate" -> TRUE
      [] result = "Ok" /\ suboptimal -> TRUE
      [] OTHER -> stale

\* mutant: the acquired index is not stored in self.image_num
AcquireNextImage_NoStore(result, num, suboptimal) ==
    /\ pc = "acquire"
    /\ result \in AcquireResults
    /\ num \in 0..(swap_chain.num_images - 1)
    /\ result # "Ok" => (num = 0 /\ ~suboptimal)
    /\ recreate_swapchain' = StaleAfterAcquire(result, suboptimal, recreate_swapchain)
    /\ calls' = Append(calls,
          Entry("acquire",
                IF result = "Ok" /\ suboptimal THEN "Suboptimal" ELSE result,
                IF result = "Ok" THEN num ELSE -1, swap_chain.gen, None))
    /\ pc' = AfterAcquireTarget(result)
    /\ UNCHANGED <<frame, window_size, swap_chain, final_images, scene_images,
                   image_num, scene_view_size, previous_frame_end, after_future,
                   inflight, prev_frame>>

AcquireNextImage(result, num, suboptimal) ==
    /\ pc = "acquire"
    /\ result \in AcquireResults
    /\ num \in 0..(swap_chain.num_images - 1)
    /\ result # "Ok" => (num = 0 /\ ~suboptimal)
    /\ recreate_swapchain' = StaleAfterAcquire(result, suboptimal, recreate_swapchain)
    /\ image_num' = IF result = "Ok" THEN num ELSE image_num
    /\ calls' = Append(calls,
          Entry("acquire",
                IF result = "Ok" /\ suboptimal THEN "Suboptimal" ELSE result,
                IF result = "Ok" THEN num ELSE -1, swap_chain.gen, None))
    /\ pc' = AfterAcquireTarget(result)
    /\ UNCHANGED <<frame, window_size, swap_chain, final_images, scene_images,
                   scene_view_size, previous_frame_end, after_future, inflight,
                   prev_frame>>

\* ---- Renderer::render_scene -------------------------------------------
\* the passes frame.next_pass() yields before it returns None
PassSequence == <<"Deferred", "Finished">>

\* `while let Some(pass) = frame.next_pass() { match pass {..} }`: every turn
\* of the loop calls next_pass(), the last call being the one that returns
\* None.  st counts the next_pass() calls, those made after Finished was seen,
\* and the executed draws, keeps after_future, and logs the calls made
Advance(st, returned) ==
    [st EXCEPT !.next_pass_calls = @ + 1,
               !.after_finished = IF st.after_future # None THEN @ + 1 ELSE @,
               !.log = Append(@, Entry("next_pass", returned, -1, -1, None))]

\* mutant: the loop is left as soon as Finished was matched
RECURSIVE DrivePasses_BreakAtFinished(_, _, _)
DrivePasses_BreakAtFinished(passes, i, st) ==
    IF i > Len(passes)
    THEN Advance(st, "None")
    ELSE IF passes[i] = "Deferred"
         THEN DrivePasses_BreakAtFinished(passes, i + 1,
                 [Advance(st, "Deferred") EXCEPT
                     !.executed = @ + 1,
                     !.log = Append(@, Entry("draw_pass.execute", "Ok",
                                             image_num, -1, None))])
         ELSE [Advance(st, "Finished") EXCEPT
                  !.after_future = WorkFuture(278, frame)]

RECURSIVE DrivePasses(_, _, _)
DrivePasses(passes, i, st) ==
    IF i > Len(passes)
    THEN Advance(st, "None")
    ELSE DrivePasses(passes, i + 1,
            IF passes[i] = "Deferred"
            THEN [Advance(st, "Deferred") EXCEPT
                     !.executed = @ + 1,
                     !.log = Append(@, Entry("draw_pass.execute", "Ok",
                                             image_num, -1, None))]
            ELSE [Advance(st, "Finished") EXCEPT
                     !.after_future = WorkFuture(278, frame)])

ScenePasses ==
    DrivePasses(PassSequence, 1,
        [next_pass_calls |-> 0, after_finished |-> 0, executed |-> 0,
         after_future |-> None, log |-> << >>])

\* GPU work of one render() call: the scene pass, or the overlay and present
Work(pass, f) == [pass |-> pass, frame |-> f]

\* mutant: the submitted work is not waited for
WaitOn_NoWait(work, pending, wait, retired) == pending

\* `future.wait(None)` on the fence of `work`, the last of the submissions
\* `pending` on the one queue: Ok means the fence was signalled, which the
\* device does once that submission and all earlier ones are complete; on Err
\* the work is in whatever state the device left it (retired tells which)
WaitOn(work, pending, wait, retired) ==
    CASE wait = "Ok" -> {}
      [] retired -> pending \ {work}
      [] OTHER -> pending

\* how the scene pass ended: its flush failed, its wait failed, or neither
SceneResult(flush, wait) ==
    CASE flush # "Ok" -> "FlushError"
      [] wait # "Ok" -> "WaitError"
      [] OTHER -> "Ok"

\* mutant: a failed flush of the scene pass is passed over
AfterSceneFlushTarget_Continue(flush) == "gui_draw"

\* where render() continues after render_scene() flushed with `flush`
AfterSceneFlushTarget(flush) == IF flush = "Ok" THEN "gui_draw" ELSE "panicked"

FlushResults == {"Ok", "OutOfDate", "Error"}
WaitResults == {"Ok", "Error"}

RenderScene(flush, wait, retired) ==
    /\ pc = "render_scene"
    /\ flush \in {"Ok", "Error"}
    /\ wait \in WaitResults
    /\ flush # "Ok" => (wait = "Ok" /\ retired)
    /\ wait = "Ok" => retired
    /\ IF image_num >= Len(scene_images) \/ ScenePasses.after_future = None
       THEN \* self.scene_images[self.image_num] is out of bounds, or
            \* after_future.unwrap() on None
            /\ flush = "Ok" /\ wait = "Ok"
            /\ pc' = "panicked"
            /\ calls' = Append(calls, Entry("panic", "render_scene", image_num, -1, None))
            /\ UNCHANGED inflight
       ELSE /\ pc' = AfterSceneFlushTarget(flush)
            /\ inflight' = IF flush = "Ok"
                           THEN WaitOn(Work("scene", frame),
                                       inflight \cup {Work("scene", frame)},
                                       wait, retired)
                           ELSE inflight
            /\ calls' = calls
                   \o ScenePasses.log
                   \o << Entry("scene", SceneResult(flush, wait),
                               image_num, -1, SyncNow(262, frame)) >>
                   \o (IF flush = "Ok" /\ wait = "Error"
                       THEN << Entry("println", "scene wait", -1, -1, None) >>
                       ELSE << >>)
    /\ UNCHANGED <<frame, window_size, swap_chain, final_images, scene_images,
                   image_num, scene_view_size, recreate_swapchain,
                   previous_frame_end, after_future, prev_frame>>

\* ---- render: join previous_frame_end with acquire_future, gui.draw -------
GuiDraw ==
    /\ pc = "gui_draw"
    /\ IF Take(previous_frame_end).value = None \/ image_num >= Len(final_images)
       THEN \* unwrap() on None, or self.final_images[image_num] out of bounds
            /\ pc' = "panicked"
            /\ calls' = Append(calls, Entry("panic", "gui_draw", image_num, -1, None))
            /\ UNCHANGED <<previous_frame_end, after_future>>
       ELSE /\ previous_frame_end' = Take(previous_frame_end).left
            /\ after_future' = WorkFuture(255, frame)
            /\ calls' = Append(calls,
                  Entry("gui.draw", "Ok", image_num,
                        final_images[image_num + 1].swapchain,
                        Take(previous_frame_end).value))
            /\ pc' = "finish"
    /\ UNCHANGED <<frame, window_size, swap_chain, final_images, scene_images,
                   image_num, scene_view_size, recreate_swapchain, inflight,
                   prev_frame>>

\* ---- Renderer::finish ---------------------------------------------------
\* mutant: finish() clears the flag when the present succeeded
StaleAfterFinish_ClearsOnOk(flush, stale) == flush = "OutOfDate"

\* mutant: the OutOfDate arm of finish() does not set the flag
StaleAfterFinish_Never(flush, stale) == stale

\* the stale flag after then_signal_fence_and_flush() returned `flush`
StaleAfterFinish(flush, stale) == IF flush = "OutOfDate" THEN TRUE ELSE stale

\* mutant: the error arms of finish() leave previous_frame_end as taken
FinishFuture_NoReplace(flush, f) ==
    IF flush = "Ok" THEN WorkFuture(331, f) ELSE None

\* mutant: finish() stores a fresh no-op future on every arm
FinishFuture_AlwaysFresh(flush, f) ==
    CASE flush = "OutOfDate" -> SyncNow(335, f)
      [] OTHER -> SyncNow(339, f)

\* what finish() stores in previous_frame_end
FinishFuture(flush, f) ==
    CASE flush = "Ok" -> WorkFuture(331, f)
      [] flush = "OutOfDate" -> SyncNow(335, f)
      [] OTHER -> SyncNow(339, f)

\* how the present ended
PresentResult(flush, wait) ==
    CASE flush = "OutOfDate" -> "OutOfDate"
      [] flush # "Ok" -> "FlushError"
      [] wait # "Ok" -> "WaitError"
      [] OTHER -> "Ok"

\* what finish() prints
FinishPrints(flush, wait) ==
    CASE flush = "Ok" /\ wait = "Error" -> << Entry("println", "finish wait", -1, -1, None) >>
      [] flush = "Error" -> << Entry("println", "finish flush", -1, -1, None) >>
      [] OTHER -> << >>

Finish(flush, wait, retired) ==
    /\ pc = "finish"
    /\ flush \in FlushResults
    /\ wait \in WaitResults
    /\ flush # "Ok" => wait = "Ok"
    /\ wait = "Ok" => retired
    /\ inflight' = IF flush = "Ok"
                   THEN WaitOn(Work("present", frame),
                               inflight \cup {Work("present", frame)}, wait, retired)
                   ELSE inflight
    /\ recreate_swapchain' = StaleAfterFinish(flush, recreate_swapchain)
    /\ previous_frame_end' = FinishFuture(flush, frame)
    /\ calls' = calls
           \o << Entry("present", PresentResult(flush, wait), image_num,
                       swap_chain.gen, after_future) >>
           \o FinishPrints(flush, wait)
    /\ after_future' = None
    /\ pc' = "idle"
    /\ UNCHANGED <<frame, window_size, swap_chain, final_images, scene_images,
                   image_num, scene_view_size, prev_frame>>

Next ==
    \/ Resize
    \/ \E w \in WindowSizes : WindowResized(w)
    \/ Render
    \/ \E r \in RecreateResults, n \in ImageCounts : RecreateSwapchain(r, n)
    \/ \E r \in AcquireResults, i \in 0..(MaxImages - 1), s \in BOOLEAN :
          AcquireNextImage(r, i, s)
    \/ \E f \in FlushResults, w \in WaitResults, r \in BOOLEAN : RenderScene(f, w, r)
    \/ GuiDraw
    \/ \E f \in FlushResults, w \in WaitResults, r \in BOOLEAN : Finish(f, w, r)

Spec == Init /\ [][Next]_vars

\* resize_scene_view() is private and has no caller (#[allow(dead_code)]):
\* the specification below adds it, for the statements about it
NextSceneView ==
    \/ Next
    \/ \E s \in SceneSizes : ResizeSceneView(s)

SpecSceneView == Init /\ [][NextSceneView]_vars

\* ==== the statements checked ==============================================
\* the render() call that `calls` records has returned
Returned == pc = "idle" /\ frame > 0

\* a render() call that starts stale begins with the swapchain recreation
StaleRenderRecreatesFirst ==
    (pc = "idle" /\ recreate_swapchain /\ pc' # "idle") => pc' = "recreate_swapchain"

\* C1: after a render() call in which the swapchain recreation succeeded, the
\* number of scene targets equals the number of swapchain images.
C1_SceneCountEqualsImageCount ==
    (Returned /\ CalledWith(calls, "recreate", "Ok"))
        => Len(scene_images) = Len(final_images)

\* C2: a render() call whose swapchain recreation reported unsupported
\* dimensions acquires no image, runs no scene pass, does not invoke the
\* overlay and does not present.
C2_UnsupportedDimensionsIsNoOp ==
    CalledWith(calls, "recreate", "UnsupportedDimensions")
        => /\ ~Called(calls, "acquire")
           /\ ~Called(calls, "scene")
           /\ ~Called(calls, "gui.draw")
           /\ ~Called(calls, "present")

\* C3: when the swapchain recreation reports unsupported dimensions the
\* renderer does not panic, the stale flag stays set, the swapchain and its
\* images are unchanged, and the next render() call starts with a recreation.
C3_UnsupportedDimensionsStaysStale ==
    /\ [](CalledWith(calls, "recreate", "UnsupportedDimensions") => recreate_swapchain)
    /\ [][ (pc = "recreate_swapchain"
              /\ CalledWith(calls', "recreate", "UnsupportedDimensions"))
            => /\ pc' = "acquire"
               /\ recreate_swapchain'
               /\ swap_chain' = swap_chain
               /\ final_images' = final_images ]_vars
    /\ [][StaleRenderRecreatesFirst]_vars

C3_Witness ==
    /\ Returned
    /\ CalledWith(calls, "recreate", "UnsupportedDimensions")
    /\ recreate_swapchain

\* C4: a render() call whose acquire reports the swapchain outdated runs no
\* scene pass, no overlay draw and no present, and returns with the stale
\* flag set.
C4_OutdatedAcquireIsNoOp ==
    CalledWith(calls, "acquire", "OutOfDate")
        => /\ Returned
           /\ recreate_swapchain
           /\ ~Called(calls, "scene")
           /\ ~Called(calls, "gui.draw")
           /\ ~Called(calls, "present")

C4_Witness == Returned /\ CalledWith(calls, "acquire", "OutOfDate")

\* C5: between render() calls exactly one previous-frame-end future is held:
\* it is never empty when a render() call starts, it is moved out (not copied)
\* when the frame takes it, and the future a frame took is not the one the
\* frame stores.
C5_OnePreviousFrameEnd ==
    /\ pc = "idle" => previous_frame_end # None
    /\ pc = "finish" => previous_frame_end = None
    /\ (Returned /\ Called(calls, "gui.draw"))
          => /\ previous_frame_end # TheCall(calls, "gui.draw").fut
             /\ previous_frame_end.frame = frame

C5_Witness ==
    /\ Returned
    /\ frame = 2
    /\ CalledWith(calls, "present", "FlushError")
    /\ previous_frame_end # None

\* C6: of two consecutive render() calls that acquire, draw and present
\* without error, the second joins and hands to the overlay exactly the
\* future the first one stored after its present and flush: not a fresh
\* no-op future, not an older frame's future.
C6_SecondFrameJoinsFirstFramesFuture ==
    (prev_frame.ok /\ Called(calls, "gui.draw"))
        => /\ TheCall(calls, "gui.draw").fut = prev_frame.stored
           /\ TheCall(calls, "gui.draw").fut = WorkFuture(331, frame - 1)

C6_Witness == Returned /\ prev_frame.ok /\ DrewWithoutError(calls)

\* C7: when the present and flush of finish() fails, the failed future is not
\* carried forward: previous_frame_end becomes a fresh no-op future; on an
\* outdated error the stale flag is set, on any other error the error is
\* printed and the process continues.
C7_FailedFlushSubstitutesFreshFuture ==
    /\ (CalledWith(calls, "present", "OutOfDate")
          \/ CalledWith(calls, "present", "FlushError"))
         => /\ Returned
            /\ previous_frame_end.kind = "now"
            /\ previous_frame_end.frame = frame
            /\ previous_frame_end # TheCall(calls, "present").fut
    /\ CalledWith(calls, "present", "OutOfDate") => recreate_swapchain
    /\ CalledWith(calls, "present", "FlushError")
         => CalledWith(calls, "println", "finish flush")

C7_Witness ==
    /\ Returned
    /\ CalledWith(calls, "present", "OutOfDate")
    /\ ~CalledWith(calls, "acquire", "Suboptimal")
    /\ ~Called(calls, "recreate")

C9_SuboptimalDrawsAndMarksStale ==
    /\ [](CalledWith(calls, "acquire", "Suboptimal")
            => /\ recreate_swapchain
               /\ Returned
                    => \A op \in {"scene", "gui.draw", "present"} :
                          /\ Called(calls, op)
                          /\ TheCall(calls, op).img = TheCall(calls, "acquire").img)
    /\ [][StaleRenderRecreatesFirst]_vars

C9_Witness ==
    /\ Returned
    /\ CalledWith(calls, "acquire", "Suboptimal")
    /\ CalledWith(calls, "present", "Ok")
    /\ ~Called(calls, "recreate")

\* C10 as stated: in every frame that draws, the scene-pass work of the frame
\* is complete when the overlay draw is submitted, on every path through
\* render_scene().
C10_SceneRetiredBeforeOverlay ==
    pc = "finish" => Work("scene", frame) \notin inflight

\* C10 as amended: in every frame that draws and whose wait on the scene-pass
\* future returned Ok, the scene-pass work of the frame is complete when the
\* overlay draw is submitted.
C10_SceneRetiredBeforeOverlayWhenWaitOk ==
    (pc = "finish" /\ CalledWith(calls, "scene", "Ok"))
        => Work("scene", frame) \notin inflight

C10_Witness ==
    /\ pc = "finish"
    /\ CalledWith(calls, "scene", "Ok")
    /\ Called(calls, "gui.draw")

\* C11 as stated: the GPU work that is submitted and not yet completed belongs
\* to at most one frame; when a render() call starts submitting, no work of an
\* earlier render() call is in flight, whatever the earlier waits returned.
C11_InflightBelongsToOneFrame ==
    /\ \A w \in inflight : w.frame = frame
    /\ pc = "render_scene" => inflight = {}

\* C11 as amended: after a render() call whose present and flush succeeded and
\* whose final wait returned Ok no submitted work is in flight, so that the
\* render() call after it starts submitting with nothing in flight.
C11_NothingInflightAfterWaitOk ==
    /\ (Returned /\ CalledWith(calls, "present", "Ok")) => inflight = {}
    /\ (prev_frame.ok /\ pc = "render_scene") => inflight = {}

C11_Witness ==
    /\ pc = "render_scene"
    /\ prev_frame.ok
    /\ frame = 2
    /\ inflight = {}

\* C12: resize() called again while the stale flag is already set changes
\* nothing: any number of resize() calls between two render() calls leaves the
\* renderer in the state one call leaves it in.
C12_ResizeIsIdempotent ==
    [][(Resize /\ recreate_swapchain) => UNCHANGED vars]_vars

\* the flag is set although the last render() call entered fresh, acquired an
\* optimal image and presented it: resize() was called after it
C12_Witness ==
    /\ Returned
    /\ recreate_swapchain
    /\ ~Called(calls, "recreate")
    /\ CalledWith(calls, "acquire", "Ok")
    /\ CalledWith(calls, "present", "Ok")

\* C13: in every reachable state every scene target has exactly the current
\* scene resolution, whatever the window extent and the swapchain image size.
C13_SceneTargetsHaveSceneResolution ==
    \A i \in 1..Len(scene_images) : scene_images[i].dimensions = scene_view_size

\* a recreated swapchain whose images, like the window, have another extent
\* than the scene targets
C13_Witness ==
    /\ swap_chain.gen > 0
    /\ scene_view_size # window_size
    /\ \A i \in 1..Len(final_images) : final_images[i].dimensions # scene_view_size
    /\ \A i \in 1..Len(scene_images) : scene_images[i].dimensions = scene_view_size

\* C14: a render() call that starts stale attempts the recreation before it
\* acquires; when the recreation succeeds the flag is cleared, and the image
\* acquired, the image view handed to the overlay and the image presented in
\* that call belong to the new swapchain.
C14_StaleRenderUsesNewSwapchain ==
    /\ [][StaleRenderRecreatesFirst]_vars
    /\ [](Called(calls, "recreate") => calls[1].op = "recreate")
    /\ []((pc = "acquire" /\ CalledWith(calls, "recreate", "Ok"))
            => ~recreate_swapchain)
    /\ [](CalledWith(calls, "recreate", "Ok")
            => /\ TheCall(calls, "recreate").gen = swap_chain.gen
               /\ \A i \in 1..Len(final_images) :
                     final_images[i].swapchain = swap_chain.gen
               /\ \A op \in {"acquire", "gui.draw", "present"} :
                     Called(calls, op) => TheCall(calls, op).gen = swap_chain.gen)

C14_Witness ==
    /\ Returned
    /\ CalledWith(calls, "recreate", "Ok")
    /\ CalledWith(calls, "present", "Ok")
    /\ TheCall(calls, "gui.draw").gen = 2

\* C15: resize() sets the stale flag and changes nothing else: not the
\* swapchain, its images, the scene targets, the scene resolution, the last
\* image index or the carried future; the window extent is not stored.
C15_ResizeChangesOnlyTheFlag ==
    [][Resize => /\ recreate_swapchain'
                 /\ UNCHANGED <<swap_chain, final_images, scene_images,
                                scene_view_size, image_num, previous_frame_end,
                                window_size, inflight, pc>>]_vars

\* resize() was called after the window changed its extent: the swapchain
\* still has the old one
C15_Witness ==
    /\ frame = 0
    /\ recreate_swapchain
    /\ window_size # swap_chain.dimensions

\* C16: in a drawn frame the index returned by the acquire is the one index
\* used by the scene pass, by the image view handed to the overlay and by the
\* present, and last_image_num() returns it after the frame.
C16_OneIndexPerFrame ==
    (Called(calls, "acquire") /\ TheCall(calls, "acquire").img >= 0)
        => /\ \A op \in {"draw_pass.execute", "scene", "gui.draw", "present"} :
                 Called(calls, op)
                    => TheCall(calls, op).img = TheCall(calls, "acquire").img
           /\ image_num = TheCall(calls, "acquire").img
           /\ Called(calls, "gui.draw")
                 => final_images[image_num + 1].index = TheCall(calls, "acquire").img

C16_Witness ==
    /\ Returned
    /\ CalledWith(calls, "present", "Ok")
    /\ TheCall(calls, "acquire").img = 1
    /\ image_num = 1

\* the steps that are a call of resize_scene_view()
ResizeSceneViewStep == \E s \in SceneSizes : ResizeSceneView(s)

\* C17: resize_scene_view(new_size) replaces every scene target by one of the
\* new resolution and leaves the number of scene targets as it was, in every
\* reachable state.
C17_ResizeSceneViewKeepsCount ==
    [][ResizeSceneViewStep
          => /\ Len(scene_images') = Len(scene_images)
             /\ \A i \in 1..Len(scene_images') :
                   scene_images'[i].dimensions = scene_view_size']_vars

\* the calls of next_pass() in `log` that come after the one that returned
\* Finished
NextPassAfterFinished(log) ==
    {i \in 1..Len(log) :
        /\ log[i].op = "next_pass"
        /\ \E j \in 1..(i - 1) : log[j].op = "next_pass" /\ log[j].res = "Finished"}

Count(log, op) == Cardinality({i \in 1..Len(log) : log[i].op = op})

\* C18 as stated: with one Deferred pass followed by Finished, render_scene()
\* executes the scene commands exactly once and does not call next_pass()
\* again once Finished was observed.
C18_NoNextPassAfterFinished ==
    Called(calls, "scene")
        => /\ Count(calls, "draw_pass.execute") = 1
           /\ NextPassAfterFinished(calls) = {}

\* C18 as amended: with one Deferred pass followed by Finished, render_scene()
\* executes the scene commands exactly once, and calls next_pass() exactly
\* once more after Finished was observed: the call that returns None and ends
\* the loop.
C18_OneNextPassAfterFinished ==
    Called(calls, "scene")
        => /\ Count(calls, "draw_pass.execute") = 1
           /\ Count(calls, "next_pass") = Len(PassSequence) + 1
           /\ Cardinality(NextPassAfterFinished(calls)) = 1
           /\ \A i \in NextPassAfterFinished(calls) : calls[i].res = "None"

C18_Witness ==
    /\ Called(calls, "scene")
    /\ CalledWith(calls, "next_pass", "Finished")
    /\ CalledWith(calls, "next_pass", "None")

\* C19: whenever render() uses the acquired index, the index is smaller than
\* the number of scene targets and than the number of swapchain image views.
C19_IndexInBounds ==
    pc \in {"render_scene", "gui_draw", "finish"}
        => /\ image_num < Len(scene_images)
           /\ image_num < Len(final_images)

\* C20: once set, the stale flag stays set until a swapchain recreation
\* succeeds: nothing else clears it, and no recreation is attempted while the
\* flag is clear.
C20_OnlySuccessfulRecreationClearsStale ==
    /\ [][(recreate_swapchain /\ ~recreate_swapchain')
            => /\ pc = "recreate_swapchain"
               /\ Len(calls') = Len(calls) + 1
               /\ calls'[Len(calls')].op = "recreate"
               /\ calls'[Len(calls')].res = "Ok"]_vars
    /\ [](pc = "recreate_swapchain" => recreate_swapchain)
    /\ [](Called(calls, "recreate") => calls[1].op = "recreate")

\* the flag survived a failed recreation and a failed flush of the same call
C20_Witness ==
    /\ Returned
    /\ recreate_swapchain
    /\ CalledWith(calls, "recreate", "UnsupportedDimensions")
    /\ CalledWith(calls, "acquire", "Ok")
    /\ CalledWith(calls, "present", "FlushError")
====
